---------------------------- MODULE Spec2Model ----------------------------
(***************************************************************************)
(* The animation engine of the scratch card: the Scene (a Map of           *)
(* renderable objects, drawn by a live Map iterator), the Ticker (a paint  *)
(* callback followed by a timer), the RemoveAfterDelay decorator and the   *)
(* Sand burst that spawns decorated particles through timers.              *)
(*                                                                         *)
(* JavaScript runs one callback at a time.  A render pass is one paint     *)
(* callback: RenderBegin, one RenderStep per object the iterator yields,   *)
(* RenderEnd.  No other callback runs while pc = "render".                 *)
(*                                                                         *)
(* Time: the code only ever uses the difference                            *)
(*   new Date().getTime() - firstRenderTime,                               *)
(* so each wrapper keeps that difference (elapsed), advanced by ClockTick  *)
(* and saturated at the largest value the wrapper's delay can take.  One  *)
(* unit of model time stands for 500 ms.                                   *)
(*                                                                         *)
(* Besides the program (Spec, LiveSpec, FaultSpec) and the Scene under a   *)
(* client of its own (SceneSpec), the module holds the classes that are    *)
(* checked on their own, each under a client that calls its methods:       *)
(* Canvas (CanvasSpec), the numeric nodes (NodeSpec), CanvasObject.move    *)
(* and the fall decorators (FallSpec), Sand.render and SandStream.render   *)
(* statement by statement (BurstSpec, DivisionSpec), and the handlers of   *)
(* the scratch card with throttle and once (ScratchSpec).  TimerSpec is    *)
(* LiveSpec with the host's guarantee for particle timers.                 *)
(***************************************************************************)
EXTENDS Integers, Sequences, FiniteSets, TLC

\* ------------------------------------------------------------------ bounds
MaxRad == 2          \* particles (RemoveAfterDelay wrappers) spawned in a run
MaxBursts == 1       \* Sand bursts the dust handler creates in a run
ClientDelay == 2     \* numeric removeDelay of the wrapper a Scene client builds
MaxCalls == 4        \* element()/context() calls a Canvas client makes
MaxOperand == 3      \* largest operand of a numeric node
MaxReads == 2        \* coercions of one numeric node
MaxMoves == 3        \* move and render calls on one CanvasObject
MaxParts == 10       \* largest partsCount of a Sand
MaxStreams == 4      \* largest streamsCount of a Sand
MaxEvents == 5       \* input events on the scratch card
MaxColors == 4       \* colors of a palette
Grain == 4           \* Math.random() returns k / Grain, k in 0 .. Grain - 1

\* The partsCount and streamsCount a burst is built with
PartCounts == 0..MaxRad
StreamCounts == {1, 2}

\* #removeDelay = 500 ms of SandStream, in units of 500 ms
removeDelay == 1

\* ------------------------------------------------------- numeric nodes
\* A delay is a plain number or a RandomNumber node (operandOne, operandTwo).
Num(v) == [kind |-> "num", a |-> v, b |-> 0]
Rnd(a, b) == [kind |-> "rnd", a |-> a, b |-> b]

\* RandomNumber.computeValue: operandOne + Math.random() * operandTwo, a new
\* draw at every coercion; Math.random() in [0,1) gives a value in [a, a+b),
\* kept to whole units.
ValuesOf(node) ==
  IF node.kind = "num" \/ node.b <= 0 THEN {node.a}
  ELSE {node.a + k : k \in 0..(node.b - 1)}

\* The removeDelay SandStream passes: RandomNumber.of(removeDelay, removeDelay * 2)
SandRemoveDelay == Rnd(removeDelay, removeDelay * 2)

Max(x, y) == IF x >= y THEN x ELSE y

\* A wrapper's elapsed time is counted up to the largest value its removeDelay
\* can take: from there on every comparison with the delay gives the same answer.
Largest(node) == node.a + Max(node.b - 1, 0)

\* mutant: the quotient is cut off instead of rounded
RoundDiv_Floor(p, s) == p \div s

\* RoundNumber.of(Division.of(p, s)): Math.round rounds halves up
RoundDiv(p, s) == (2 * p + s) \div (2 * s)

\* ------------------------------------------------------------- identities
Sand(b) == <<"Sand", b>>
RAD(n) == <<"RemoveAfterDelay", n>>
Fall(n) == <<"FallParabolicAnimation", n>>
Circle(i) == <<"Circle", i>>
Spawner(i) == <<"Spawner", i>>
Plain(i) == <<"CanvasObject", i>>
Empty == <<"Empty", 0>>
Clear == <<"clearRect", 0>>
Kind(o) == o[1]
Idx(o) == o[2]

VARIABLES
  entries,      \* Scene.#canvasObjects: the Map's entry list, insertion order
  iterIndex,    \* index of the entry the live iterator last yielded
  pc,           \* "idle" or "render" (inside Scene.render)
  drawLog,      \* history: clearRect and render invocations of the pass in progress
  passStart,    \* history: the registered objects when the pass began
  passAdded,    \* history: objects inserted during the pass
  passRemoved,  \* history: objects deleted during the pass
  calls,        \* history: the addObject/removeObject calls of the last handler
  rad,          \* the RemoveAfterDelay instances
  lastRender,   \* history: the RemoveAfterDelay.render of the last RenderStep, if any
  ticker,       \* pending callbacks of the Ticker: [raf, timer]
  tickerRun,    \* ticker.run() has been called
  sinceTick,    \* history: ticker events since tickFn was last invoked
  tickGap,      \* history: the events between the last two tickFn invocations
  tickCount,    \* history: tickFn invocations, counted up to 2
  sands,        \* the Sand bursts: [made, parts, streams, renders]
  timers,       \* particle timers scheduled and not yet fired
  promised,     \* particles of the bursts created so far
  nextRad,      \* index of the next particle
  dom,          \* the document holds an element the Canvas selector matches
  canvas,       \* the Canvas: [element, context, lookups, returned]
  failures,     \* history: ticks whose tickFn raised an error, counted up to 1
  evals,        \* a numeric node and the values its coercions returned
  fall,         \* a CanvasObject under a FallAnimation: positions and last move
  sandRun,      \* one Sand.render call, statement by statement
  card          \* the scratch card: cleared cover, pending callbacks, throttles

vars == <<entries, iterIndex, pc, drawLog, passStart, passAdded, passRemoved,
          calls, rad, lastRender, ticker, tickerRun, sinceTick, tickGap,
          tickCount, sands, timers, promised, nextRad,
          dom, canvas, failures, evals, fall, sandRun, card>>

sceneVars == <<entries, iterIndex, pc, drawLog, passStart, passAdded, passRemoved, calls>>
tickerVars == <<ticker, tickerRun, sinceTick, tickGap, tickCount>>
sandVars == <<sands, timers, promised, nextRad>>
unitVars == <<evals, fall, sandRun, card>>
programVars == <<sceneVars, rad, lastRender, tickerVars, sandVars, failures>>

\* ------------------------------------------------------------------ Scene
Has(es, o) == \E i \in DOMAIN es : es[i] = o
Live(es) == SelectSeq(es, LAMBDA e : e # Empty)
Objects(es) == {es[i] : i \in DOMAIN es} \ {Empty}

\* mutant: an array push, which registers a registered object a second time
addObject_Push(es, o) == Append(es, o)

\* Map.prototype.set(object, object): a key already present keeps its entry
\* (and so its place); a new key is appended.
addObject(es, o) == IF Has(es, o) THEN es ELSE Append(es, o)

\* mutant: array.splice(indexOf(o), 1), which drops the last entry when o is absent
removeObject_Splice(es, o) ==
  IF Has(es, o) \/ Live(es) = <<>>
  THEN [i \in DOMAIN es |-> IF es[i] = o THEN Empty ELSE es[i]]
  ELSE LET last == CHOOSE j \in DOMAIN es : es[j] # Empty /\ \A k \in DOMAIN es : es[k] # Empty => k <= j
       IN [es EXCEPT ![last] = Empty]

\* Map.prototype.delete(object): the entry of the key is emptied; an absent key
\* changes nothing and nothing is thrown.  Emptied entries are dropped when no
\* iterator is live (RenderEnd, and calls outside a pass).
removeObject(es, o) == [i \in DOMAIN es |-> IF es[i] = o THEN Empty ELSE es[i]]

FirstAfter(es, i, S) ==
  IF \E j \in DOMAIN es : j > i /\ es[j] \in S
  THEN CHOOSE j \in DOMAIN es : /\ j > i /\ es[j] \in S
                                /\ \A k \in DOMAIN es : (k > i /\ es[k] \in S) => j <= k
  ELSE 0

\* mutant: the objects are drawn last to first
NextIndex_Reverse(es, i) ==
  IF i = 0 /\ Live(es) # <<>>
  THEN CHOOSE j \in DOMAIN es : es[j] # Empty /\ \A k \in DOMAIN es : es[k] # Empty => k <= j
  ELSE IF \E j \in DOMAIN es : j < i /\ es[j] # Empty
       THEN CHOOSE j \in DOMAIN es : /\ j < i /\ es[j] # Empty
                                     /\ \A k \in DOMAIN es : (k < i /\ es[k] # Empty) => k <= j
       ELSE 0

\* mutant: an index loop over an array that splice() shortens: when the object
\* just rendered removed itself, the next object slides into its place and the
\* loop steps over it
NextIndex_Splice(es, i) ==
  LET j == FirstAfter(es, i, Objects(es))
  IN IF i \in DOMAIN es /\ es[i] = Empty /\ j # 0 THEN FirstAfter(es, j, Objects(es)) ELSE j

\* mutant: the pass walks a copy of the objects taken when it began
NextIndex_Snapshot(es, i) ==
  FirstAfter(es, i, {passStart[k] : k \in DOMAIN passStart})

\* The Map iterator: the first non-empty entry after the last one yielded; 0
\* when the iterator is exhausted.  Entries appended during the pass are reached.
NextIndex(es, i) ==
  IF \E j \in DOMAIN es : j > i /\ es[j] # Empty
  THEN CHOOSE j \in DOMAIN es : /\ j > i /\ es[j] # Empty
                                /\ \A k \in DOMAIN es : (k > i /\ es[k] # Empty) => j <= k
  ELSE 0

Call(op, o, es, after) ==
  [op |-> op, obj |-> o, present |-> Has(es, o), before |-> Live(es), after |-> Live(after)]


\* ----------------------------------------------------------------- Ticker
\* mutant: run() arms the timer itself instead of leaving it to the callback
runTicker_Both(t) == [t EXCEPT !.raf = @ + 1, !.timer = @ + 1]

\* Ticker.run(): requestAnimationFrame(callback), nothing else.
runTicker(t) == [t EXCEPT !.raf = @ + 1]

\* mutant: the callback arms the timer before it calls tickFn
frameStart_ArmFirst(t) == [t EXCEPT !.raf = @ - 1, !.timer = @ + 1]

\* The host takes the paint callback off its list and calls it; tickFn is the
\* first statement of the callback.
frameStart(t) == [t EXCEPT !.raf = @ - 1]

\* mutant: the callback ends without setting the timer
frameEnd_NoTimer(t) == t

\* setTimeout(this.run.bind(this), delayMs): the statement after tickFn().
frameEnd(t) == [t EXCEPT !.timer = @ + 1]

\* The timer expires: the host calls run().
timerFired(t) == runTicker([t EXCEPT !.timer = @ - 1])

\* ------------------------------------------------------- RemoveAfterDelay
\* held: the client keeps a reference to the wrapper (it can register it again)
NoRad == [made |-> FALSE, target |-> Empty, delay |-> Num(0), started |-> FALSE,
          elapsed |-> 0, fixed |-> 0, expiries |-> 0, held |-> FALSE]

\* mutant: the constructor takes the timestamp
NewRad_Started(target, delay, held) ==
  [NoRad EXCEPT !.made = TRUE, !.target = target, !.delay = delay, !.held = held,
                !.started = TRUE]

\* RemoveAfterDelay.of(targetObject, scene, removeDelay): #firstRenderTime is
\* left undefined
NewRad(target, delay, held) ==
  [NoRad EXCEPT !.made = TRUE, !.target = target, !.delay = delay, !.held = held]

\* mutant: the timestamp is taken again at every render
radStart_Reset(w) == [w EXCEPT !.started = TRUE, !.elapsed = 0]

\* if (!this.#firstRenderTime) this.#firstRenderTime = new Date().getTime()
\* (the second reading of the clock, two statements later, is less than one
\* time unit after the first: the elapsed time of a first render is 0)
radStart(w) == IF w.started THEN w ELSE [w EXCEPT !.started = TRUE, !.elapsed = 0]

\* now - this.#firstRenderTime < this.#removeDelay, d the value removeDelay
\* coerces to in this comparison
radShows(w, d) == w.elapsed < d

\* mutant: the wrapper forgets to remove itself
radExpire_TargetOnly(es, n, target) == removeObject(es, target)

\* the else branch: scene.removeObject(targetObject); scene.removeObject(this)
radExpire(es, n, target) == removeObject(removeObject(es, target), RAD(n))

\* A wrapper that nothing refers to any more (the Scene has removed it and the
\* client holds no reference): it is never read again, and the model keeps of it
\* only that it existed and how often it expired.
Dropped(w) == [NoRad EXCEPT !.made = TRUE, !.started = TRUE, !.expiries = w.expiries]

NoRender == [n |-> 0, target |-> Empty, elapsed |-> 0, delay |-> 0, fixed |-> 0, shown |-> FALSE,
             expiredBefore |-> FALSE]

\* ------------------------------------------------------------ Sand bursts
NoSand == [made |-> FALSE, parts |-> 0, streams |-> 0, renders |-> 0]

\* SandStream.render(parts, ...): Range.of(1, parts) gives one timer per part
streamTimers(parts) == Max(parts, 0)

\* Sand.render: Range.of(1, streamsCount) calls of SandStream.render, each with
\* partsForStream = RoundNumber.of(Division.of(partsCount, streamsCount))
sandTimers(p, s) == Max(s, 0) * streamTimers(RoundDiv(p, s))

\* mutant: the burst stays in the Scene
sandRemoveSelf_Stay(es, b) == es

\* Sand.render: this.#sandStream.scene().removeObject(this)
sandRemoveSelf(es, b) == removeObject(es, Sand(b))

BurstsMade == Cardinality({b \in 1..MaxBursts : sands[b].made})

\* The client object a Scene client registers in SceneSpec: a renderable whose
\* render registers its child in the Scene.
Child(o) == Circle(2)
\* Plain(1) is an object of the base class: new CanvasObject(top, left)
ClientObjects == {Circle(1), Circle(2), RAD(1), Spawner(1), Plain(1)}

\* mutant: the base render is abstract, as PrimitiveAware.computeValue is
canvasObjectRender_Throws(o) == "raised"

\* CanvasObject.render(): console.log("nothing to render"), and it returns
canvasObjectRender(o) == "logged"

\* ----------------------------------------------------------------- Canvas
\* #element and #context start undefined; querySelector returns the element or null
NewCanvas == [element |-> "undefined", context |-> "undefined", lookups |-> 0,
              returned |-> <<>>]

\* if (!x): undefined and null are both falsy
Falsy(v) == v \in {"undefined", "null"}

\* document.querySelector(this.#selector)
querySelector(d) == IF d THEN "element" ELSE "null"

\* Canvas.element(): the Canvas after the call; the call returns its #element
element(c, d) ==
  IF Falsy(c.element)
  THEN [c EXCEPT !.element = querySelector(d), !.lookups = @ + 1]
  ELSE c

\* Canvas.context() raises a TypeError: this.element() is null and getContext is
\* read from it
contextRaises(c, d) == Falsy(c.context) /\ element(c, d).element = "null"

\* Canvas.context(): the Canvas after the call; #context is assigned only when
\* getContext returned
context(c, d) ==
  IF ~Falsy(c.context) THEN c
  ELSE IF contextRaises(c, d) THEN element(c, d)
       ELSE [element(c, d) EXCEPT !.context = "2d"]

\* ------------------------------------------------------------ numbers
\* JavaScript numbers (positions, quotients); the model computes with exact
\* fractions n/d
Abs(x) == IF x < 0 THEN -x ELSE x

RECURSIVE GCD(_, _)
GCD(x, y) == IF y = 0 THEN x ELSE GCD(y, x % y)

\* A JavaScript number: n/d in lowest terms with d > 0, or one of the values
\* that are not finite, written with d = 0: 1/0 is Infinity, -1/0 is -Infinity,
\* 0/0 is NaN.
Rat(n, d) ==
  LET g == GCD(Abs(n), d)
  IN IF g = 0 THEN [n |-> 0, d |-> 0] ELSE [n |-> n \div g, d |-> d \div g]

Finite(x) == x.d > 0
NaN == [n |-> 0, d |-> 0]

\* x + y: two infinities of one sign add up to that infinity
RatAdd(x, y) ==
  IF x.d = 0 /\ y.d = 0 THEN (IF x = y THEN x ELSE NaN)
  ELSE IF x.d = 0 \/ y.d = 0 THEN Rat(x.n * y.d + y.n * x.d, 0)
  ELSE LET g == GCD(x.d, y.d)
       IN Rat(x.n * (y.d \div g) + y.n * (x.d \div g), (x.d \div g) * y.d)
RatSub(x, y) == RatAdd(x, [n |-> 0 - y.n, d |-> y.d])
\* x * y, with the common factors taken out before the products are formed
RatMul(x, y) ==
  IF x.d = 0 \/ y.d = 0 \/ x.n = 0 \/ y.n = 0 THEN Rat(x.n * y.n, x.d * y.d)
  ELSE LET g == GCD(Abs(x.n), y.d)
           h == GCD(Abs(y.n), x.d)
       IN Rat((x.n \div g) * (y.n \div h), (x.d \div h) * (y.d \div g))
\* x / y: a divisor 0 gives Infinity, -Infinity or NaN, no error
RatDiv(x, y) ==
  IF y.n < 0 THEN RatMul(x, [n |-> 0 - y.d, d |-> 0 - y.n])
  ELSE IF y.n = 0 \/ y.d = 0 THEN Rat(x.n * y.d, x.d * y.n)
  ELSE RatMul(x, [n |-> y.d, d |-> y.n])

\* ------------------------------------------------- numeric nodes, evaluated
\* What a coercion returns: a number, or undefined
Val(x) == [def |-> TRUE, v |-> x]
Undefined == [def |-> FALSE, v |-> 0]

\* BottomLimitNumber.of(limit, value): operandOne = limit, operandTwo = value
Limit(l, v) == [kind |-> "limit", a |-> l, b |-> v]

\* Division.of(a, b)
Div(a, b) == [kind |-> "div", a |-> a, b |-> b]

\* What a coercion of a Division returns (a fraction or a value that is not
\* finite), and the outcome of a coercion that raises an error instead
Quot(r) == [def |-> TRUE, q |-> r]
Raised == [def |-> FALSE, raised |-> TRUE]

\* mutant: a zero divisor raises an error, as integer division does elsewhere
divisionValue_Throws(a, b) == IF b = 0 THEN Raised ELSE Quot(RatDiv(Rat(a, 1), Rat(b, 1)))

\* Division.computeValue: this._operandOne / this._operandTwo
divisionValue(a, b) == Quot(RatDiv(Rat(a, 1), Rat(b, 1)))

\* RoundNumber.of(x) for the number x = n / d, d > 0
Round(n, d) == [kind |-> "round", a |-> n, b |-> d]

\* Sum.of(x, y), Mul.of(x, y) or Division.of(x, y) that is about to be
\* constructed, x and y being plain numbers or RandomNumber nodes
New(op, x, y) == [kind |-> "new", op |-> op, x |-> x, y |-> y]

\* A Sum, Mul or Division that is constructed, x and y being what the
\* constructor stored in _operandOne and _operandTwo
Binary(op, x, y) == [kind |-> "binary", op |-> op, x |-> x, y |-> y]

\* mutant: the constructor stores the operand as it is, as UnaryOperation does
operand_Kept(x) == {x}

\* BinaryOperation's constructor: this._operandOne = Number(operandOne), which
\* coerces a node once and stores the number
operand(x) == {Num(v) : v \in ValuesOf(x)}

\* The calls of Math.random() one coercion of x makes
RandomCalls(x) == IF x.kind = "rnd" THEN 1 ELSE 0

\* FloorNumber.of(x): UnaryOperation's constructor stores x as it is
Floor(x) == [kind |-> "floor", x |-> x]

\* The values one coercion of x can return, as numerators over Grain: a
\* RandomNumber returns operandOne + Math.random() * operandTwo, and
\* Math.random() is at least 0 and less than 1
Fractions(x) ==
  IF x.kind = "rnd" THEN {x.a * Grain + k * x.b : k \in 0..(Grain - 1)}
  ELSE {x.a * Grain}

\* mutant: the nearest integer instead of the largest one below
floor_Round(n, d) == RoundDiv(n, d)

\* Math.floor(n / d), d > 0
floor(n, d) == n \div d

\* Sum, Mul and Division.computeValue for the operand values p and q
binaryValue(op, p, q) ==
  CASE op = "sum" -> Val(p + q)
    [] op = "mul" -> Val(p * q)
    [] OTHER -> divisionValue(p, q)

\* computeValue(), as valueOf() and toString() call it: the values one call can return.
\*   RandomNumber       this._operandOne + Math.random() * this._operandTwo
\*   BottomLimitNumber  this._operandTwo < this._operandOne ? this.operandOne
\*                      : this._operandTwo; the class has no property operandOne
\*                      (its fields are _operandOne and _operandTwo), so the
\*                      first branch gives undefined
computeValue(node) ==
  CASE node.kind = "rnd" -> {Val(x) : x \in ValuesOf(node)}
    [] node.kind = "limit" -> {IF node.b < node.a THEN Undefined ELSE Val(node.b)}
    [] node.kind = "div" -> {divisionValue(node.a, node.b)}
    [] node.kind = "round" -> {Val(RoundDiv(node.a, node.b))}
    [] node.kind = "floor" -> {Val(floor(f, Grain)) : f \in Fractions(node.x)}
    [] node.kind = "binary" -> {binaryValue(node.op, p, q) :
                                  p \in ValuesOf(node.x), q \in ValuesOf(node.y)}
    [] OTHER -> {Val(node.a)}

\* draws counts the calls of Math.random()
NoEvals == [node |-> Num(0), reads |-> <<>>, draws |-> 0]

\* ------------------------------------------------ CanvasObject, FallAnimation
\* The callbacks a caller hands to move:
\*   newTopFn   (top) => top + k   or   (top) => top * k
\*   newLeftFn  (left) => left,  (left, top) => left + top,  (left, top) => top
TopAdd(k) == [op |-> "add", k |-> k]
TopScale(k) == [op |-> "scale", k |-> k]
LeftSame == [op |-> "left"]
LeftPlusTop == [op |-> "plusTop"]
LeftTop == [op |-> "top"]
\* FallParabolicAnimation.render's newLeftFn:
\*   (left, top) => left + (parabolicConstant * 2) / (top - initialTop)
LeftParabola(c, top0) == [op |-> "parabola", c |-> c, top0 |-> top0]

ApplyTop(f, top, left) == IF f.op = "add" THEN RatAdd(top, f.k) ELSE RatMul(top, f.k)

\* const deltaFromInitial = top - this.#initialTop
deltaFromInitial(top, top0) == RatSub(top, top0)

ApplyLeft(g, left, top) ==
  CASE g.op = "left" -> left
    [] g.op = "plusTop" -> RatAdd(left, top)
    [] g.op = "parabola" ->
         RatAdd(left, RatDiv(RatMul(g.c, Rat(2, 1)), deltaFromInitial(top, g.top0)))
    [] OTHER -> top

\* mutant: both callbacks are given the position the call started with
move_OldTop(o, f, g) ==
  [top |-> ApplyTop(f, o.top, o.left), left |-> ApplyLeft(g, o.left, o.top), leftFnTop |-> o.top]

\* CanvasObject.move(newTopFn, newLeftFn):
\*   this._top = newTopFn(this._top, this._left);
\*   this._left = newLeftFn(this._left, this._top);
\* the second statement reads this._top after the first has assigned it.
\* leftFnTop: the second argument newLeftFn was called with.
move(o, f, g) ==
  LET t == ApplyTop(f, o.top, o.left)
  IN [top |-> t, left |-> ApplyLeft(g, o.left, t), leftFnTop |-> t]

\* mutant: the step is the product of the two numbers
fallStep_Times(delay, dpt) == RatMul(delay, dpt)

\* FallAnimation.render: tickerDelayMs / this.#distancePerTick
fallStep(delay, dpt) == RatDiv(delay, dpt)

NoMove == [by |-> "none", top |-> Rat(0, 1), left |-> Rat(0, 1), topFn |-> TopAdd(Rat(0, 1)),
           leftFn |-> LeftSame, leftFnTop |-> Rat(0, 1)]

\* The first render of a decorator: the step it added to top, the
\* deltaFromInitial its newLeftFn computed (FallParabolicAnimation only), and
\* whether the target had been moved since it was wrapped
NoFirst == [step |-> Rat(0, 1), delta |-> Rat(0, 1), moved |-> FALSE]

\* kind: the decorator's class; speed: the distancePerTick it was built with, a
\* number or a RandomNumber node; distancePerTick: the number that argument
\* was coerced to by the last render; step: what the last render added to top
NoFall == [top |-> Rat(0, 1), left |-> Rat(0, 1), top0 |-> Rat(0, 1), left0 |-> Rat(0, 1),
           tickDelay |-> Rat(0, 1), distancePerTick |-> Rat(1, 1),
           renders |-> 0, moves |-> 0, last |-> NoMove,
           kind |-> "none", speed |-> Num(1), parabolicConstant |-> Rat(0, 1),
           step |-> Rat(0, 1), first |-> NoFirst]

\* const speed = 4 of Sand.render, the speedRange it passes to SandStream.render
speed == 4

\* The distancePerTick SandStream passes:
\* RandomNumber.of(speedRange, Mul.of(speedRange, 2))
SandSpeed == Rnd(speed, speed * 2)

\* ------------------------------------------- Sand.render, SandStream.render
\* const dist = 30 of Sand.render, the partsDelay it passes to SandStream.render
dist == 30

\* mutant: the next base is counted from the delay just built, jitter included
nextDelayAfter_Sum(nextDelay, partsDelay, delay) == delay + partsDelay

\* nextDelay += partsDelay, after Sum.of(nextDelay, RandomNumber.of(0, partsDelay))
nextDelayAfter(nextDelay, partsDelay, delay) == nextDelay + partsDelay

\* mutant: the timer is set with the delay itself
timerDelay_Unscaled(delay) == delay

\* Timeout.of(fn, Mul.of(delay, 10)): the delay setTimeout is called with
timerDelay(delay) == delay * 10

\* The timers one delays.forEach has set: how many, the delay of the last one
\* and the delay of the one before it
NoTimer == [k |-> 0, delay |-> 0, before |-> 0]

NoSandRun == [pc |-> "none", parts |-> 0, streams |-> 0, partsDelay |-> 0, perStream |-> 0,
              calls |-> <<>>, sets |-> <<>>, nextDelay |-> 0, bases |-> <<>>, lastDelay |-> 0,
              prevDelay |-> 0, timer |-> NoTimer, scene |-> <<>>]

\* ------------------------------------------------------- the scratch card
\* The times of the three throttled handlers, in ms, and the client's reachPercent
moveTime == 16
percentTime == 100
dustTime == 48
reachPercent == 60

Min(x, y) == IF x <= y THEN x ELSE y

\* throttle(inFn, inTime): has is lastResult !== noResult, since is
\* now - lastCallTime (counted up to inTime + 1: beyond it the comparison with
\* inTime gives the same answer), result is lastResult.  lastCallTime starts
\* as the time of the throttle's creation.
NoThrottle == [has |-> FALSE, since |-> 0, result |-> 0]

\* mutant: a call made exactly inTime ms after the last invocation invokes inFn
throttleRuns_AtLeast(t, inTime) == ~t.has \/ t.since >= inTime

\* lastResult === noResult || now - lastCallTime > inTime: the call invokes inFn
throttleRuns(t, inTime) == ~t.has \/ t.since > inTime

\* updateResults(now, newResult), after inFn has returned newResult
throttleUpdate(t, r) == [has |-> TRUE, since |-> 0, result |-> r]

\* One call of the function throttle(inFn, inTime) returned, r being what inFn
\* returns if it is invoked: ran tells whether inFn was invoked, t is the
\* throttle after the call and returned is lastResult, which the call returns
throttleCall(t, inTime, r) ==
  LET ran == throttleRuns(t, inTime)
      after == IF ran THEN throttleUpdate(t, r) ELSE t
  IN [ran |-> ran, t |-> after, returned |-> after.result]

\* d ms later
throttleAged(t, inTime, d) == [t EXCEPT !.since = Min(@ + d, inTime + 1)]

\* once(inFn): has is inCallResult !== inNoResult, result is inCallResult.
\* History: runs counts the runs of inFn's body, calls the calls of the
\* wrapper, first is what the first run returned, returned what the last call
\* of the wrapper returned.
NoOnce == [has |-> FALSE, result |-> "undefined", runs |-> 0, calls |-> 0,
           first |-> "undefined", returned |-> "undefined"]

\* mutant: a result that is falsy counts as no result yet
once_Falsy(w, r) ==
  IF ~w.has \/ w.result = "undefined"
  THEN [has |-> TRUE, result |-> r, runs |-> w.runs + 1, calls |-> w.calls + 1,
        first |-> IF w.runs = 0 THEN r ELSE w.first, returned |-> r]
  ELSE [w EXCEPT !.calls = @ + 1, !.returned = w.result]

\* One call of the function once(inFn) returned, r being what inFn's body
\* returns if it is run:
\*   truthy(inCallResult === inNoResult, () => { inCallResult = inFn(...in2Args) });
\*   return inCallResult;
once(w, r) ==
  IF ~w.has
  THEN [has |-> TRUE, result |-> r, runs |-> w.runs + 1, calls |-> w.calls + 1,
        first |-> IF w.runs = 0 THEN r ELSE w.first, returned |-> r]
  ELSE [w EXCEPT !.calls = @ + 1, !.returned = w.result]

\* The percentages of the card are counted in tenths of a percent
Tenths(p) == p * 10

\* null, what scratchPercentReachedHandler returns when nothing is configured
Null == 0 - 1

\* The number a percentage string, a number or null is converted to by - and >=
ToNumber(v) == IF v = Null THEN 0 ELSE v

\* x.toPrecision(2) for a percentage x given in tenths (0 <= x <= 1000): below
\* 10 percent two significant digits keep the tenths, from 10 percent on they
\* round to a whole percent ("1.0e+2" is 100)
toPrecision(x) == IF x < Tenths(10) THEN x ELSE ((x + 5) \div 10) * 10

\* canvasFilledPixelsPercent, cleared being the share of the pixels whose
\* alpha is 0, in tenths of a percent
canvasFilledPixelsPercent(cleared) == toPrecision(IF cleared >= 1 THEN cleared ELSE 0)

\* inOptions.reachPercent && inOptions.reachPercentHandler; a reachPercent
\* that is not given is undefined, which is falsy as 0 is
configured(options) == options.reachPercent # 0 /\ options.reachPercentHandler

\* mutant: the percentage is compared without asking whether the options are there
reached_Unconfigured(inPercent, options) == inPercent >= Tenths(options.reachPercent)

\* The body of scratchPercentReachedHandler calls reachPercentHandler
reached(inPercent, options) ==
  configured(options) /\ inPercent >= Tenths(options.reachPercent)

\* mutant: every addEventListener adds a registration
addListener_Push(n) == n + 1

\* addEventListener(type, fn) on a target that holds n registrations of fn for
\* that type: a listener that is registered already is not added again
addListener(n) == IF n >= 1 THEN n ELSE n + 1

\* removeEventListener(type, fn): one registration of fn less, if there is one
removeListener(n) == IF n >= 1 THEN n - 1 ELSE 0

\* mutant: dustHandler is passed the whole percentage
diffPercent_Whole(inPercent, last) == ToNumber(inPercent)

\* const diffPercent = inPercent - lastClearPercent
diffPercent(inPercent, last) == ToNumber(inPercent) - ToNumber(last)

\* lastClearPercent after renderDustAnimation(() => { ...; lastClearPercent =
\* inPercent }): assigned by the callback, which a suppressed call does not run
lastClearPercentAfter(ran, last, inPercent) ==
  IF ran THEN [set |-> TRUE, v |-> inPercent] ELSE last

\* The two kinds of input scratch() registers handlers for
Kinds == {"mouse", "touch"}

\* What the client may pass as reachPercent (0: not given) and whether
\* it passes a reachPercentHandler
Options == [reachPercent : {0, reachPercent}, reachPercentHandler : BOOLEAN]

\* History of the last call of scratchPercentReachedHandler: first tells
\* whether it was the first call, gap the ms since the last invocation of the
\* throttled function (since the creation for the first call), invoked whether
\* the function was invoked, before the result of the last invocation before
\* the call, returned what the call returned (the percentage it computed, if
\* it was invoked) and reported whether reachPercentHandler was called
NoCall == [called |-> FALSE, first |-> FALSE, gap |-> 0, invoked |-> FALSE,
           before |-> Null, returned |-> Null, reported |-> FALSE]

\* History of the last input event: its kind, its type and, for a move,
\* whether scratchMoveHandler handled it (it asked for a paint callback)
NoInput == [kind |-> "none", type |-> "none", handled |-> FALSE]

\* cleared: the share of the cover that is erased, in tenths of a percent;
\* frames: the number of paint callbacks of handled moves that have not run
\* yet; events: input events so far;
\* lastClearPercent: set once a dust callback has assigned it (until then it
\* is the number 0, which is !== to every percentage string and to null);
\* listeners: the registrations of inMoveHandler and inStopHandler on the
\* canvas, for each kind of input.
\* History: held tells whether a start event on the canvas was not followed by
\* an end event yet, dusted is the sum of the deltas passed to dustHandler and
\* dustRuns counts the dust callbacks that ran.
NoCard == [cleared |-> 0, frames |-> 0, events |-> 0,
           move |-> NoThrottle, percent |-> NoThrottle, dust |-> NoThrottle,
           lastClearPercent |-> [set |-> FALSE, v |-> 0], win |-> NoOnce,
           options |-> [reachPercent |-> reachPercent, reachPercentHandler |-> TRUE],
           listeners |-> [k \in Kinds |-> [move |-> 0, end |-> 0]],
           held |-> [k \in Kinds |-> FALSE], input |-> NoInput,
           call |-> NoCall, dusted |-> 0, dustRuns |-> 0]

\* ------------------------------------------------------------------- Init
InitCommon ==
  /\ entries = <<>> /\ iterIndex = 0 /\ pc = "idle"
  /\ drawLog = <<>> /\ passStart = <<>> /\ passAdded = {} /\ passRemoved = {}
  /\ calls = <<>> /\ lastRender = NoRender
  /\ ticker = [raf |-> 0, timer |-> 0] /\ tickerRun = FALSE
  /\ sinceTick = <<>> /\ tickGap = <<>> /\ tickCount = 0
  /\ sands = [b \in 1..MaxBursts |-> NoSand]
  /\ timers = 0 /\ promised = 0 /\ nextRad = 1

\* No class is exercised on its own
NoUnits == evals = NoEvals /\ fall = NoFall /\ sandRun = NoSandRun /\ card = NoCard

\* The client code: Canvas.of(".the-dust-canvas") in a document that holds the element
Init ==
  /\ InitCommon
  /\ rad = [n \in 1..MaxRad |-> NoRad]
  /\ dom = TRUE /\ canvas = NewCanvas /\ failures = 0
  /\ NoUnits

\* The client code in a document that may lack the element
FaultInit ==
  /\ InitCommon
  /\ rad = [n \in 1..MaxRad |-> NoRad]
  /\ dom \in BOOLEAN /\ canvas = NewCanvas /\ failures = 0
  /\ NoUnits

\* A Scene client that has built RemoveAfterDelay.of(Circle(1), scene, ClientDelay)
SceneInit ==
  /\ InitCommon
  /\ rad = [n \in 1..MaxRad |-> IF n = 1 THEN NewRad(Circle(1), Num(ClientDelay), TRUE) ELSE NoRad]
  /\ dom = TRUE /\ canvas = NewCanvas /\ failures = 0
  /\ NoUnits

\* ----------------------------------------------------------------- actions
\* ticker.run(), called once by the client
TickerRun ==
  /\ ~tickerRun /\ pc = "idle"
  /\ tickerRun' = TRUE
  /\ ticker' = runTicker(ticker)
  /\ UNCHANGED <<sceneVars, rad, lastRender, sinceTick, tickGap, tickCount, sandVars>>
  /\ UNCHANGED <<dom, canvas, failures, unitVars>>

\* The delayMs timer expires and calls run()
TickerTimer ==
  /\ ticker.timer > 0 /\ pc = "idle"
  /\ ticker' = timerFired(ticker)
  /\ sinceTick' = Append(sinceTick, "timer")
  /\ UNCHANGED <<sceneVars, rad, lastRender, tickerRun, tickGap, tickCount, sandVars>>
  /\ UNCHANGED <<dom, canvas, failures, unitVars>>

\* The paint callback starts: tickFn = scene.render is entered.  Its first
\* statement is this.#canvas.context(); then the surface is cleared and the Map
\* iterator is created.  When context() raises, the error leaves render, tickFn
\* and the paint callback: the setTimeout that follows tickFn() is not reached.
RenderBegin ==
  /\ ticker.raf > 0 /\ pc = "idle"
  /\ ticker' = frameStart(ticker)
  /\ tickGap' = Append(sinceTick, "paint")
  /\ sinceTick' = <<>>
  /\ tickCount' = IF tickCount < 2 THEN tickCount + 1 ELSE 2
  /\ canvas' = context(canvas, dom)
  /\ IF contextRaises(canvas, dom)
     THEN /\ failures' = 1
          /\ UNCHANGED <<pc, iterIndex, drawLog, passStart, passAdded, passRemoved, calls>>
     ELSE /\ pc' = "render"
          /\ iterIndex' = 0
          /\ drawLog' = <<Clear>>
          /\ passStart' = Live(entries)
          /\ passAdded' = {} /\ passRemoved' = {} /\ calls' = <<>>
          /\ UNCHANGED failures
  /\ UNCHANGED <<entries, rad, lastRender, tickerRun, sandVars, dom, unitVars>>

\* for (const [object] of objectsIterator) object.render(canvas): one object.
\*   Circle            draws itself.
\*   RemoveAfterDelay  reads removeDelay (d) and either renders its target or
\*                     removes the target and itself from the Scene.
\*   Sand              sets its particle timers and removes itself.
\*   Spawner           (a client's object) registers its child.
\*   CanvasObject      (the base class) writes a line to the console.
\* An error raised by a render leaves the loop, Scene.render, tickFn and the
\* paint callback: nothing more is rendered and no timer is armed.
RenderStep ==
  /\ pc = "render"
  /\ NextIndex(entries, iterIndex) # 0
  /\ LET j == NextIndex(entries, iterIndex)
         o == entries[j]
         k == Kind(o)
         n == Idx(o)
         raised == k = "CanvasObject" /\ canvasObjectRender(o) = "raised"
     IN
     /\ pc' = IF raised THEN "idle" ELSE pc
     /\ failures' = IF raised THEN 1 ELSE failures
     /\ iterIndex' = j
     /\ drawLog' = Append(drawLog, o)
     /\ \E d \in (IF k = "RemoveAfterDelay" THEN ValuesOf(rad[n].delay) ELSE {0}) :
          LET w == IF k = "RemoveAfterDelay" THEN radStart(rad[n]) ELSE NoRad
              shows == k = "RemoveAfterDelay" /\ radShows(w, d)
              es == CASE k = "Spawner" -> addObject(entries, Child(o))
                      [] k = "Sand" -> sandRemoveSelf(entries, n)
                      [] k = "RemoveAfterDelay" /\ ~shows -> radExpire(entries, n, w.target)
                      [] OTHER -> entries
              cs == CASE k = "Spawner" -> <<Call("add", Child(o), entries, es)>>
                      [] k = "Sand" -> <<Call("remove", o, entries, es)>>
                      [] k = "RemoveAfterDelay" /\ ~shows ->
                           <<Call("remove", w.target, entries, removeObject(entries, w.target)),
                             Call("remove", o, removeObject(entries, w.target), es)>>
                      [] OTHER -> <<>>
          IN
          /\ entries' = es
          /\ calls' = cs
          /\ passAdded' = passAdded \cup (Objects(es) \ Objects(entries))
          /\ passRemoved' = passRemoved \cup (Objects(entries) \ Objects(es))
          /\ rad' = IF k = "RemoveAfterDelay"
                    THEN [rad EXCEPT ![n] =
                            LET r == [w EXCEPT !.fixed = IF @ = 0 THEN d ELSE @,
                                               !.expiries = IF shows \/ @ >= 2 THEN @ ELSE @ + 1]
                            IN IF Has(es, o) \/ r.held THEN r ELSE Dropped(r)]
                    ELSE rad
          /\ lastRender' = IF k = "RemoveAfterDelay"
                           THEN [n |-> n, target |-> w.target, elapsed |-> w.elapsed, delay |-> d,
                                 fixed |-> IF w.fixed = 0 THEN d ELSE w.fixed,
                                 shown |-> shows, expiredBefore |-> w.expiries > 0]
                           ELSE NoRender
          /\ timers' = IF k = "Sand" THEN timers + sandTimers(sands[n].parts, sands[n].streams)
                       ELSE timers
          /\ sands' = IF k = "Sand"
                      THEN [sands EXCEPT ![n] = [NoSand EXCEPT !.made = TRUE,
                                                               !.renders =
                                                                 IF sands[n].renders < 2
                                                                 THEN sands[n].renders + 1
                                                                 ELSE 2]]
                      ELSE sands
  /\ UNCHANGED <<passStart, tickerVars, promised, nextRad>>
  /\ UNCHANGED <<dom, canvas, unitVars>>

\* The iterator is exhausted: render returns and the callback arms the timer
RenderEnd ==
  /\ pc = "render"
  /\ NextIndex(entries, iterIndex) = 0
  /\ pc' = "idle"
  /\ iterIndex' = 0
  /\ entries' = Live(entries)
  /\ calls' = <<>> /\ lastRender' = NoRender
  /\ drawLog' = <<>> /\ passStart' = <<>> /\ passAdded' = {} /\ passRemoved' = {}
  /\ ticker' = frameEnd(ticker)
  /\ UNCHANGED <<rad, tickerRun, sinceTick, tickGap, tickCount, sandVars>>
  /\ UNCHANGED <<dom, canvas, failures, unitVars>>

\* A wrapper some live reference leads to: the Scene's or the client's
Reachable(n) == rad[n].held \/ Has(entries, RAD(n))

Ageing(n) == rad[n].started /\ Reachable(n) /\ rad[n].elapsed < Largest(rad[n].delay)

\* Time passes: the elapsed time of every started wrapper grows (a wrapper that
\* nothing refers to any more is left as it is: it is never read again)
ClockTick ==
  /\ \E n \in 1..MaxRad : Ageing(n)
  /\ rad' = [n \in 1..MaxRad |->
               IF Ageing(n)
               THEN [rad[n] EXCEPT !.elapsed = @ + 1] ELSE rad[n]]
  /\ UNCHANGED <<sceneVars, lastRender, tickerVars, sandVars>>
  /\ UNCHANGED <<dom, canvas, failures, unitVars>>

\* dustHandler: scene.addObject(Sand.of(SandStream.of(...), partsCount, streamsCount)).
\* The handler runs as a callback of its own, never inside a pass; it returns at
\* once for percent = 0, and the counts it passes are drawn from PartCounts and
\* StreamCounts.  The particle timers a burst sets fire one by one, each at some
\* later time (setTimeout promises no more than that).
Dust ==
  /\ pc = "idle"
  /\ BurstsMade < MaxBursts
  /\ \E p \in PartCounts, s \in StreamCounts :
       LET b == BurstsMade + 1 IN
       /\ promised + sandTimers(p, s) <= MaxRad
       /\ sands' = [sands EXCEPT ![b] = [NoSand EXCEPT !.made = TRUE, !.parts = p, !.streams = s]]
       /\ promised' = promised + sandTimers(p, s)
       /\ entries' = Live(addObject(entries, Sand(b)))
       /\ calls' = <<Call("add", Sand(b), entries, addObject(entries, Sand(b)))>>
  /\ UNCHANGED <<iterIndex, pc, drawLog, passStart, passAdded, passRemoved, rad,
                 lastRender, tickerVars, timers, nextRad>>
  /\ UNCHANGED <<dom, canvas, failures, unitVars>>

\* mutant: the timer registers the fall decorator the wrapper holds
particle_Target(n) == Fall(n)

\* this.#scene.addObject(removable): of Circle, FallParabolicAnimation and
\* RemoveAfterDelay the timer callback registers the outermost one
particle(n) == RAD(n)

\* mutant: the timer is an interval, it stays scheduled after it has fired
particleTimerFired_Interval(t) == t

\* Timeout: setTimeout.bind(null, fn, delay), called once by do(); the host
\* calls fn once and the timer is gone
particleTimerFired(t) == t - 1

\* A particle timer of SandStream.render fires: Circle, FallParabolicAnimation,
\* RemoveAfterDelay are built and the wrapper is added to the Scene
ParticleTimer ==
  /\ pc = "idle"
  /\ timers > 0 /\ nextRad <= MaxRad
  /\ rad' = [rad EXCEPT ![nextRad] = NewRad(Fall(nextRad), SandRemoveDelay, FALSE)]
  /\ entries' = Live(addObject(entries, particle(nextRad)))
  /\ calls' = <<Call("add", particle(nextRad), entries, addObject(entries, particle(nextRad)))>>
  /\ timers' = particleTimerFired(timers)
  /\ nextRad' = nextRad + 1
  /\ UNCHANGED <<iterIndex, pc, drawLog, passStart, passAdded, passRemoved,
                 lastRender, tickerVars, sands, promised>>
  /\ UNCHANGED <<dom, canvas, failures, unitVars>>

\* A Scene client calls scene.addObject(o) between passes
ClientAdd ==
  /\ pc = "idle"
  /\ \E o \in ClientObjects :
       /\ entries' = Live(addObject(entries, o))
       /\ calls' = <<Call("add", o, entries, addObject(entries, o))>>
  /\ UNCHANGED <<iterIndex, pc, drawLog, passStart, passAdded, passRemoved, rad,
                 lastRender, tickerVars, sandVars>>
  /\ UNCHANGED <<dom, canvas, failures, unitVars>>

\* A Scene client calls scene.removeObject(o) between passes
ClientRemove ==
  /\ pc = "idle"
  /\ \E o \in ClientObjects :
       /\ entries' = Live(removeObject(entries, o))
       /\ calls' = <<Call("remove", o, entries, removeObject(entries, o))>>
  /\ UNCHANGED <<iterIndex, pc, drawLog, passStart, passAdded, passRemoved, rad,
                 lastRender, tickerVars, sandVars>>
  /\ UNCHANGED <<dom, canvas, failures, unitVars>>

\* --------------------------------------------------------- specifications
\* The program: the client code starts the ticker and answers dust callbacks
Next ==
  \/ TickerRun \/ TickerTimer \/ RenderBegin \/ RenderStep \/ RenderEnd
  \/ ClockTick \/ Dust \/ ParticleTimer

Spec == Init /\ [][Next]_vars

\* The Scene under a client that registers and removes objects of its own
SceneNext ==
  \/ TickerRun \/ TickerTimer \/ RenderBegin \/ RenderStep \/ RenderEnd
  \/ ClockTick \/ ClientAdd \/ ClientRemove

SceneSpec == SceneInit /\ [][SceneNext]_vars

\* The program with the scheduling the host guarantees: every callback that is
\* scheduled is eventually called, a pass that has begun runs to its end, and
\* the clock advances.
LiveSpec ==
  /\ Spec
  /\ WF_vars(TickerRun) /\ WF_vars(TickerTimer)
  /\ WF_vars(RenderBegin) /\ WF_vars(RenderStep) /\ WF_vars(RenderEnd)
  /\ WF_vars(ParticleTimer) /\ WF_vars(ClockTick)

\* The program with the host's timer queue: a particle timer waits while a
\* paint callback runs, and the ticker's callbacks keep coming for ever, but
\* the host calls a timer that is due as soon as the running callback has
\* returned; a timer that can fire again and again between callbacks does fire.
TimerSpec == LiveSpec /\ SF_vars(ParticleTimer)

\* The program in a document that may lack the canvas element
FaultSpec == FaultInit /\ [][Next]_vars

\* ------------------------------------------------------ Canvas on its own
\* A client that holds a Canvas and calls element() and context(), in a
\* document to which the element can be added and from which it can be removed.
CanvasInit ==
  /\ InitCommon
  /\ rad = [n \in 1..MaxRad |-> NoRad]
  /\ dom \in BOOLEAN /\ canvas = NewCanvas /\ failures = 0
  /\ NoUnits

\* canvas.element()
CanvasElement ==
  /\ Len(canvas.returned) < MaxCalls
  /\ canvas' = [element(canvas, dom) EXCEPT !.returned = Append(@, element(canvas, dom).element)]
  /\ UNCHANGED <<programVars, dom, unitVars>>

\* canvas.context(): returns the context or raises the TypeError
CanvasContext ==
  /\ Len(canvas.returned) < MaxCalls
  /\ canvas' = [context(canvas, dom) EXCEPT
                  !.returned = Append(@, IF contextRaises(canvas, dom) THEN "TypeError"
                                         ELSE context(canvas, dom).context)]
  /\ UNCHANGED <<programVars, dom, unitVars>>

\* The page adds or removes the element the selector matches
DomChange ==
  /\ dom' = ~dom
  /\ UNCHANGED <<programVars, canvas, unitVars>>

CanvasNext == CanvasElement \/ CanvasContext \/ DomChange

CanvasSpec == CanvasInit /\ [][CanvasNext]_vars

\* ----------------------------------------------- numeric nodes on their own
Operands == (0 - MaxOperand)..MaxOperand

\* RandomNumber.of(a, b), BottomLimitNumber.of(limit, value), Division.of(a, b)
\* and RoundNumber.of(x) for whole numbers, halves and quarters x
Nodes ==
  {Rnd(a, b) : a \in Operands, b \in 0..MaxOperand}
    \cup {Limit(l, v) : l \in Operands, v \in Operands}
    \cup {Div(a, b) : a \in Operands, b \in Operands}
    \cup {Round(n, d) : n \in (0 - 4 * MaxOperand)..(4 * MaxOperand), d \in {1, 2, 4}}

\* The operands a client passes to Sum.of, Mul.of and Division.of
OperandNodes ==
  {Num(v) : v \in Operands} \cup {Rnd(a, b) : a \in Operands, b \in 0..MaxOperand}

NewNodes == {New(op, x, y) : op \in {"sum", "mul", "div"},
                             x \in OperandNodes, y \in OperandNodes}

\* A palette of n colors
Palette(n) == [i \in 1..n |-> "#" \o ToString(i)]

\* colors[index]: the element at the index (counted from 0), undefined when
\* the array has none there
At(colors, index) ==
  IF index + 1 \in DOMAIN colors THEN colors[index + 1] ELSE "undefined"

\* FloorNumber.of(RandomNumber.of(0, this.#colors.length)), the index SandStream
\* picks a particle's color with, for the palettes of 0 to MaxColors colors
IndexNodes == {Floor(Rnd(0, n)) : n \in 0..MaxColors}

NodeInit ==
  /\ InitCommon
  /\ rad = [n \in 1..MaxRad |-> NoRad]
  /\ dom = TRUE /\ canvas = NewCanvas /\ failures = 0
  /\ evals \in {[node |-> n, reads |-> <<>>, draws |-> 0] :
                  n \in Nodes \cup NewNodes \cup IndexNodes}
  /\ fall = NoFall /\ sandRun = NoSandRun /\ card = NoCard

\* new Sum(x, y), new Mul(x, y), new Division(x, y): BinaryOperation's constructor
NodeConstruct ==
  /\ evals.node.kind = "new"
  /\ \E x \in operand(evals.node.x), y \in operand(evals.node.y) :
       evals' = [node |-> Binary(evals.node.op, x, y), reads |-> <<>>,
                 draws |-> RandomCalls(evals.node.x) + RandomCalls(evals.node.y)]
  /\ UNCHANGED <<programVars, dom, canvas, fall, sandRun, card>>

\* The calls of Math.random() one coercion of the node makes
NodeDraws(node) ==
  CASE node.kind = "rnd" -> 1
    [] node.kind = "binary" -> RandomCalls(node.x) + RandomCalls(node.y)
    [] node.kind = "floor" -> RandomCalls(node.x)
    [] OTHER -> 0

\* PrimitiveAware.valueOf() and toString(): return this.computeValue()
NodeValueOf ==
  /\ evals.node \in Nodes \/ evals.node.kind \in {"binary", "floor"}
  /\ Len(evals.reads) < MaxReads
  /\ \E v \in computeValue(evals.node) :
       evals' = [evals EXCEPT !.reads = Append(@, v),
                              !.draws = @ + NodeDraws(evals.node)]
  /\ UNCHANGED <<programVars, dom, canvas, fall, sandRun, card>>

NodeNext == NodeConstruct \/ NodeValueOf

NodeSpec == NodeInit /\ [][NodeNext]_vars

\* ------------------------------------- CanvasObject.move and FallAnimation
Tops == {Rat(0, 1), Rat(3, 1)}
Lefts == {Rat(7, 1)}
\* Ticker.delayMs(): 16, or the client code's FPS.of(60).ms() = 1000 / 60
TickDelays == {Rat(16, 1), Rat(1000, 60)}
Distances == {Rat(8, 1), Rat(16, 1)}
TopFns == {TopAdd(Rat(1, 1)), TopScale(Rat(2, 1))}
LeftFns == {LeftSame, LeftPlusTop, LeftTop}

\* The distancePerTick a FallParabolicAnimation is built with: the constructor's
\* default 16, or SandStream's random node
Speeds == {Num(16), SandSpeed}
\* parabolicConstant: the constructor's default 10, or a value of SandStream's
\* Mul.of(RandomNumber.of(-1, 2), 16), which lies in [-16, 16)
ParabolicConstants == {Rat(10, 1), Rat(-16, 1), Rat(0, 1)}
\* The values of distancePerTick the fall model follows: the number itself,
\* or two draws of the RandomNumber node, its least value and the middle of
\* its range
Draws(node) == IF node.kind = "num" THEN {node.a} ELSE {node.a, node.a + node.b \div 2}

\* FallAnimation.of(target, ticker, distancePerTick) or
\* FallParabolicAnimation.of(target, ticker, distancePerTick, parabolicConstant),
\* target a CanvasObject at (top, left)
FallInit ==
  /\ InitCommon
  /\ rad = [n \in 1..MaxRad |-> NoRad]
  /\ dom = TRUE /\ canvas = NewCanvas /\ failures = 0
  /\ evals = NoEvals /\ sandRun = NoSandRun /\ card = NoCard
  /\ \E t \in Tops, l \in Lefts, d \in TickDelays :
       \/ \E s \in Distances :
            fall = [NoFall EXCEPT !.top = t, !.left = l, !.top0 = t, !.left0 = l,
                                  !.tickDelay = d, !.distancePerTick = s,
                                  !.kind = "FallAnimation", !.speed = Num(s.n)]
       \/ \E s \in Speeds, c \in ParabolicConstants :
            fall = [NoFall EXCEPT !.top = t, !.left = l, !.top0 = t, !.left0 = l,
                                  !.tickDelay = d, !.distancePerTick = Rat(s.a, 1),
                                  !.kind = "FallParabolicAnimation", !.speed = s,
                                  !.parabolicConstant = c]

\* FallAnimation.render(canvas): the target is moved and then rendered
FallRender ==
  /\ fall.kind = "FallAnimation"
  /\ fall.renders + fall.moves < MaxMoves
  /\ LET step == fallStep(fall.tickDelay, fall.distancePerTick)
         f == TopAdd(step)
         m == move(fall, f, LeftSame)
     IN fall' = [fall EXCEPT !.top = m.top, !.left = m.left, !.renders = @ + 1,
                             !.last = [by |-> "render", top |-> fall.top, left |-> fall.left,
                                       topFn |-> f, leftFn |-> LeftSame,
                                       leftFnTop |-> m.leftFnTop],
                             !.step = step,
                             !.first = IF fall.renders = 0
                                       THEN [step |-> step, delta |-> Rat(0, 1),
                                             moved |-> fall.moves > 0]
                                       ELSE @]
  /\ UNCHANGED <<programVars, dom, canvas, evals, sandRun, card>>

\* FallParabolicAnimation.render(canvas):
\*   const nextStep = tickerDelayMs / this.#distancePerTick;
\*   this.#targetObject.move((top) => top + nextStep, (left, top) => ...);
\* the division coerces #distancePerTick (d is the value it gives in this
\* render: a RandomNumber node is drawn anew), and #initialTop is the top the
\* target had when it was wrapped.
ParabolicRender ==
  /\ fall.kind = "FallParabolicAnimation"
  /\ fall.renders + fall.moves < MaxMoves
  /\ \E d \in Draws(fall.speed) :
       LET step == fallStep(fall.tickDelay, Rat(d, 1))
           f == TopAdd(step)
           g == LeftParabola(fall.parabolicConstant, fall.top0)
           m == move(fall, f, g)
       IN fall' = [fall EXCEPT !.top = m.top, !.left = m.left, !.renders = @ + 1,
                               !.distancePerTick = Rat(d, 1),
                               !.last = [by |-> "parabolic", top |-> fall.top,
                                         left |-> fall.left, topFn |-> f, leftFn |-> g,
                                         leftFnTop |-> m.leftFnTop],
                               !.step = step,
                               !.first = IF fall.renders = 0
                                         THEN [step |-> step,
                                               delta |-> deltaFromInitial(m.leftFnTop, fall.top0),
                                               moved |-> fall.moves > 0]
                                         ELSE @]
  /\ UNCHANGED <<programVars, dom, canvas, evals, sandRun, card>>

\* A client calls target.move(newTopFn, newLeftFn)
ClientMove ==
  /\ fall.renders + fall.moves < MaxMoves
  /\ \E f \in TopFns, g \in LeftFns :
       LET m == move(fall, f, g)
       IN fall' = [fall EXCEPT !.top = m.top, !.left = m.left, !.moves = @ + 1,
                               !.last = [by |-> "move", top |-> fall.top, left |-> fall.left,
                                         topFn |-> f, leftFn |-> g,
                                         leftFnTop |-> m.leftFnTop]]
  /\ UNCHANGED <<programVars, dom, canvas, evals, sandRun, card>>

FallNext == FallRender \/ ParabolicRender \/ ClientMove

FallSpec == FallInit /\ [][FallNext]_vars

\* ------------------------------ Sand.render and SandStream.render on their own
\* The partsDelay SandStream.render is called with: Sand.render passes dist
PartDelays == {1, dist}

\* Sand.of(sandStream, parts, streams), about to be rendered
BurstInit ==
  /\ InitCommon
  /\ rad = [n \in 1..MaxRad |-> NoRad]
  /\ dom = TRUE /\ canvas = NewCanvas /\ failures = 0
  /\ evals = NoEvals /\ fall = NoFall /\ card = NoCard
  /\ \E p \in 0..MaxParts, s \in 0..MaxStreams, d \in PartDelays :
       sandRun = [NoSandRun EXCEPT !.pc = "new", !.parts = p, !.streams = s, !.partsDelay = d,
                                   !.scene = <<Sand(1)>>]

\* Sand.render: partsForStream = RoundNumber.of(Division.of(partsCount, streamsCount)).
\* The two nodes are built; Division's constructor stores Number(partsCount) and
\* Number(streamsCount), RoundNumber keeps the Division as it is.  Nothing is
\* divided yet: partsForStream is coerced where SandStream.render reads it.
SandRenderStart ==
  /\ sandRun.pc = "new"
  /\ sandRun' = [sandRun EXCEPT !.pc = "streams"]
  /\ UNCHANGED <<programVars, dom, canvas, evals, fall, card>>

\* One turn of Range.of(1, streamsCount).array().forEach (the array is empty
\* for streamsCount < 1): SandStream.render is entered with (partsForStream,
\* dist, speed), sets nextDelay = 0, and Range.of(1, parts) coerces parts to
\* Math.round(partsCount / streamsCount)
StreamCall ==
  /\ sandRun.pc = "streams"
  /\ Len(sandRun.calls) < sandRun.streams
  /\ LET parts == RoundDiv(sandRun.parts, sandRun.streams)
     IN sandRun' = [sandRun EXCEPT !.pc = "map", !.perStream = parts,
                                   !.calls = Append(@, parts),
                                   !.nextDelay = 0, !.bases = <<>>, !.lastDelay = 0,
                                   !.prevDelay = 0, !.timer = NoTimer]
  /\ UNCHANGED <<programVars, dom, canvas, evals, fall, card>>

\* One turn of Range.of(1, parts).array().map: the delay Sum.of(nextDelay,
\* RandomNumber.of(0, partsDelay)) is built (Sum's constructor draws the random
\* number) and nextDelay is advanced.  bases keeps the nextDelay each delay was
\* built from, lastDelay the delay built last, prevDelay the one before it.
StreamMap ==
  /\ sandRun.pc = "map"
  /\ Len(sandRun.bases) < sandRun.perStream
  /\ \E jitter \in ValuesOf(Rnd(0, sandRun.partsDelay)) :
       LET delay == sandRun.nextDelay + jitter
       IN sandRun' = [sandRun EXCEPT
                        !.bases = Append(@, sandRun.nextDelay),
                        !.lastDelay = delay,
                        !.prevDelay = sandRun.lastDelay,
                        !.nextDelay = nextDelayAfter(sandRun.nextDelay, sandRun.partsDelay, delay)]
  /\ UNCHANGED <<programVars, dom, canvas, evals, fall, card>>

\* delays.forEach: one Timeout per delay is set, and SandStream.render returns
StreamSet ==
  /\ sandRun.pc = "map"
  /\ Len(sandRun.bases) >= sandRun.perStream
  /\ sandRun' = [sandRun EXCEPT
                   !.pc = "streams", !.sets = Append(@, Len(sandRun.bases)),
                   !.timer = IF sandRun.bases = <<>> THEN NoTimer
                             ELSE [k |-> Len(sandRun.bases),
                                   delay |-> timerDelay(sandRun.lastDelay),
                                   before |-> timerDelay(sandRun.prevDelay)]]
  /\ UNCHANGED <<programVars, dom, canvas, evals, fall, card>>

\* The forEach of Sand.render is over: the Sand removes itself and returns
SandRenderEnd ==
  /\ sandRun.pc = "streams"
  /\ Len(sandRun.calls) >= sandRun.streams
  /\ sandRun' = [sandRun EXCEPT !.pc = "done", !.scene = sandRemoveSelf(@, 1)]
  /\ UNCHANGED <<programVars, dom, canvas, evals, fall, card>>

BurstNext == SandRenderStart \/ StreamCall \/ StreamMap \/ StreamSet \/ SandRenderEnd

BurstSpec == BurstInit /\ [][BurstNext]_vars

\* ------------------------------------------------ the scratch card's handlers
\* What one stamp can erase, in tenths of a percent of the cover (0: it falls
\* on a place that is erased already)
Erases == {0, 298, 400}
\* The time that passes between two callbacks, in ms
TimeSteps == {20, 60}
\* What the body handed to once() may return (the client's returns undefined)
BodyResults == {"undefined", "won"}

\* scratch(options) has run: the cover is drawn, the images are loaded and
\* scratchStartHandler has registered the start handlers on the canvas and
\* inStopHandler on the window, for the mouse and for the touch events
ScratchInit ==
  /\ InitCommon
  /\ rad = [n \in 1..MaxRad |-> NoRad]
  /\ dom = TRUE /\ canvas = NewCanvas /\ failures = 0
  /\ evals = NoEvals /\ fall = NoFall /\ sandRun = NoSandRun
  /\ \E o \in Options : card = [NoCard EXCEPT !.options = o]

\* A start event of kind k on the canvas: the listener scratchStartHandler
\* registered adds inMoveHandler and inStopHandler to the canvas
ScratchStart ==
  /\ card.events < MaxEvents
  /\ \E k \in Kinds :
       card' = [card EXCEPT
                  !.events = @ + 1,
                  !.listeners[k] = [move |-> addListener(@.move),
                                    end |-> addListener(@.end)],
                  !.held[k] = TRUE,
                  !.input = [kind |-> k, type |-> "start", handled |-> FALSE]]
  /\ UNCHANGED <<programVars, dom, canvas, evals, fall, sandRun>>

\* scratchStopHandler, called stops times
RECURSIVE scratchStopHandler(_, _)
scratchStopHandler(l, stops) ==
  IF stops = 0 THEN l
  ELSE scratchStopHandler([move |-> removeListener(l.move),
                           end |-> removeListener(l.end)], stops - 1)

\* An end event of kind k, on the canvas or elsewhere in the window: on the
\* canvas every registration of inStopHandler is called, then the event
\* bubbles to the window, whose registration of inStopHandler is called
ScratchEnd ==
  /\ card.events < MaxEvents
  /\ \E k \in Kinds, onCanvas \in BOOLEAN :
       LET stops == (IF onCanvas THEN card.listeners[k].end ELSE 0) + 1
       IN card' = [card EXCEPT
                     !.events = @ + 1,
                     !.listeners[k] = scratchStopHandler(@, stops),
                     !.held[k] = FALSE,
                     !.input = [kind |-> k, type |-> "end", handled |-> FALSE]]
  /\ UNCHANGED <<programVars, dom, canvas, evals, fall, sandRun>>

\* A move event of kind k on the canvas: every registration of inMoveHandler
\* calls scratchMoveHandler, throttled by 16 ms (a second registration calls
\* it in the same ms, which the throttle suppresses).  A call that is not
\* suppressed asks for a paint callback (requestAnimationFrame) that will put
\* the stamp at the pointer's place.
ScratchMove ==
  /\ card.events < MaxEvents
  /\ \E k \in Kinds :
       LET called == card.listeners[k].move >= 1
           c == throttleCall(card.move, moveTime, 0)
           handled == called /\ c.ran
       IN card' = [card EXCEPT
                     !.events = @ + 1,
                     !.frames = IF handled THEN @ + 1 ELSE @,
                     !.move = IF called THEN c.t ELSE @,
                     !.input = [kind |-> k, type |-> "move", handled |-> handled]]
  /\ UNCHANGED <<programVars, dom, canvas, evals, fall, sandRun>>

\* The paint callback of a handled move and the promise callbacks it leaves
\* behind, which run before any other callback:
\*   1. inRandomImage.then(image => ...) calls drawCanvasImageRotated, which
\*      only queues the drawing: inBuildImageFn().then(image => drawImage ...);
\*   2. still in the same promise callback, scratchPercentReachedHandler
\*      (throttled by 100 ms) measures the canvas, on which this move's stamp
\*      is not drawn yet, and calls reachPercentHandler when the percentage it
\*      measured is >= reachPercent (it returns null when reachPercent or the
\*      handler is not configured); a suppressed call measures nothing and
\*      returns the result of the last call that was not suppressed;
\*   3. if lastClearPercent !== inPercent, renderDustAnimation (throttled by
\*      48 ms) calls dustHandler with inPercent - lastClearPercent and assigns
\*      lastClearPercent;
\*   4. the queued drawing runs: the stamp erases e of the cover, which
\*      depends on what is left of the cover where the stamp falls.
ScratchFrame ==
  /\ card.frames >= 1
  /\ \E r \in IF card.win.has THEN {card.win.result} ELSE BodyResults, e \in Erases :
       LET measured == IF configured(card.options)
                       THEN canvasFilledPixelsPercent(card.cleared) ELSE Null
           p == throttleCall(card.percent, percentTime, measured)
           inPercent == p.returned
           reaches == p.ran /\ reached(ToNumber(measured), card.options)
           differs == ~card.lastClearPercent.set \/ card.lastClearPercent.v # inPercent
           delta == diffPercent(inPercent, card.lastClearPercent.v)
           d == throttleCall(card.dust, dustTime, 0)
           dusts == differs /\ d.ran
       IN card' = [card EXCEPT
                     !.frames = @ - 1,
                     !.percent = p.t,
                     !.call = [called |-> TRUE, first |-> ~card.call.called,
                               gap |-> card.percent.since, invoked |-> p.ran,
                               before |-> card.percent.result,
                               returned |-> inPercent, reported |-> reaches],
                     !.win = IF reaches THEN once(@, r) ELSE @,
                     !.dust = IF differs THEN d.t ELSE @,
                     !.lastClearPercent = lastClearPercentAfter(dusts, @, inPercent),
                     !.dusted = IF dusts THEN @ + delta ELSE @,
                     !.dustRuns = IF dusts THEN @ + 1 ELSE @,
                     !.cleared = Min(@ + e, Tenths(100))]
  /\ UNCHANGED <<programVars, dom, canvas, evals, fall, sandRun>>

\* Time passes: new Date().getTime() grows by d ms
Elapse ==
  /\ \E d \in TimeSteps :
       card' = [card EXCEPT !.move = throttleAged(@, moveTime, d),
                            !.percent = throttleAged(@, percentTime, d),
                            !.dust = throttleAged(@, dustTime, d)]
  /\ card' # card
  /\ UNCHANGED <<programVars, dom, canvas, evals, fall, sandRun>>

ScratchNext ==
  ScratchStart \/ ScratchMove \/ ScratchEnd \/ ScratchFrame \/ Elapse

ScratchSpec == ScratchInit /\ [][ScratchNext]_vars

\* The two places a zero divisor can reach: a Division node a client coerces,
\* and a Sand that is rendered (its streamsCount may be 0)
DivisionInit == NodeInit \/ BurstInit

DivisionNext == NodeNext \/ BurstNext

DivisionSpec == DivisionInit /\ [][DivisionNext]_vars

\* ----------------------------------------------------------------- claims
\* The iterator of the pass in progress is exhausted: Scene.render is about to return
PassEnded == pc = "render" /\ NextIndex(entries, iterIndex) = 0
Rendered == Tail(drawLog)
Times(o, log) == Cardinality({i \in DOMAIN log : log[i] = o})
Registered(o) == Has(entries, o)

\* C1: removeObject(o) for an o that is not registered leaves the registered
\* objects, their count and their draw order as they were.
C1_RemoveAbsentIsNoop ==
  \A i \in DOMAIN calls :
    (calls[i].op = "remove" /\ ~calls[i].present) => calls[i].after = calls[i].before

C1_Witness ==
  \E i \in DOMAIN calls :
    calls[i].op = "remove" /\ ~calls[i].present /\ Len(calls[i].before) >= 2

\* C2: no object is registered twice, and addObject(o) for a registered o leaves
\* the count and the draw order (so o's place) as they were.
C2_AddIdempotent ==
  /\ \A i, j \in DOMAIN entries : (entries[i] = entries[j] /\ entries[i] # Empty) => i = j
  /\ \A i \in DOMAIN calls :
       (calls[i].op = "add" /\ calls[i].present) => calls[i].after = calls[i].before

C2_Witness ==
  \E i \in DOMAIN calls :
    /\ calls[i].op = "add" /\ calls[i].present
    /\ Len(calls[i].before) >= 2 /\ calls[i].before[1] = calls[i].obj

\* C3: a pass clears the surface once, before anything is drawn, and a pass in
\* which the Scene is not changed renders the registered objects once each, in
\* insertion order.
C3_ClearThenInsertionOrder ==
  /\ pc = "render" =>
       /\ drawLog # <<>> /\ drawLog[1] = Clear
       /\ \A i \in DOMAIN drawLog : i > 1 => drawLog[i] # Clear
  /\ (PassEnded /\ passAdded = {} /\ passRemoved = {}) => Rendered = passStart

C3_Witness ==
  PassEnded /\ passAdded = {} /\ passRemoved = {} /\ Len(passStart) = 3

\* C4: when objects are removed during a pass (and none is added), every object
\* registered at its start and still registered at its end was rendered exactly
\* once in it.
C4_SurvivorsRenderedOnce ==
  (PassEnded /\ passAdded = {}) =>
    \A i \in DOMAIN passStart :
      Registered(passStart[i]) => Times(passStart[i], Rendered) = 1

\* a survivor that stood right behind an object that removed itself
C4_Witness ==
  /\ PassEnded /\ passAdded = {}
  /\ \E i \in DOMAIN passStart :
       /\ i > 1 /\ Registered(passStart[i])
       /\ passStart[i - 1] \in passRemoved
       /\ Kind(passStart[i - 1]) = "RemoveAfterDelay"

\* C5 as claimed: the pass renders a snapshot, so whatever it renders was
\* registered when it began.
C5_Snapshot ==
  pc = "render" => \A i \in DOMAIN Rendered : \E k \in DOMAIN passStart : passStart[k] = Rendered[i]

\* C5 amended: the pass walks the live Map, so an object added during the pass
\* and still registered at its end has been rendered in that same pass, after
\* every object that was registered before it.
C5_AddedIsRenderedInSamePass ==
  PassEnded =>
    \A o \in passAdded :
      Registered(o) =>
        /\ Times(o, Rendered) >= 1
        /\ \A i, j \in DOMAIN Rendered :
             (Rendered[j] = o /\ Rendered[i] # o /\ i > j) => Rendered[i] \in passAdded

C5_Witness ==
  PassEnded /\ \E o \in passAdded : Registered(o) /\ Len(passStart) >= 2

\* C6 as claimed: a wrapper has one delay D, the value its removeDelay had when
\* it was first read, and a render invokes the target exactly when the elapsed
\* time is below D.
C6_OneDelayPerInstance ==
  lastRender.n # 0 => (lastRender.shown <=> lastRender.elapsed < lastRender.fixed)

\* C7: the expiry branch of a wrapper runs at most once; it finds the target
\* absent and the wrapper registered, removes the wrapper, and the wrapper is
\* never rendered afterwards.
C7_ExpiresOnce ==
  /\ \A n \in 1..MaxRad :
       /\ rad[n].expiries <= 1
       /\ rad[n].expiries = 1 => ~Registered(RAD(n))
  /\ ~lastRender.expiredBefore
  /\ (lastRender.n # 0 /\ ~lastRender.shown) =>
       /\ Len(calls) = 2
       /\ calls[1].obj = lastRender.target /\ ~calls[1].present
       /\ calls[1].after = calls[1].before
       /\ calls[2].obj = RAD(lastRender.n) /\ calls[2].present
       /\ Len(calls[2].after) = Len(calls[2].before) - 1

\* a pass that runs after a wrapper expired and renders another one
C7_Witness ==
  \E n, m \in 1..MaxRad :
    /\ rad[n].expiries = 1 /\ lastRender.n = m /\ m # n /\ lastRender.shown

\* C8: under the host's scheduling every registered wrapper is eventually
\* removed, and the Scene is eventually empty for good.
C8_EventuallyRemoved ==
  /\ \A n \in 1..MaxRad : Registered(RAD(n)) ~> ~Registered(RAD(n))
  /\ <>[](Live(entries) = <<>>)

C8_Witness ==
  /\ \A n \in 1..MaxRad : rad[n].expiries = 1
  /\ Live(entries) = <<>> /\ pc = "idle"

\* C9: tickFn runs in a paint callback; the first one follows run(), every later
\* one follows one timer expiry and then one paint callback; no timer is armed
\* while tickFn runs.
C9_TimerThenPaint ==
  /\ tickCount = 1 => tickGap = <<"paint">>
  /\ tickCount = 2 => tickGap = <<"timer", "paint">>
  /\ pc = "render" => (ticker.timer = 0 /\ ticker.raf = 0)

C9_Witness == tickCount = 2 /\ pc = "render" /\ Len(drawLog) >= 2

\* C10: the Ticker never has more than one callback outstanding.
C10_OneOutstanding == ticker.raf + ticker.timer <= 1

C10_Witness == tickCount = 2 /\ ticker.timer = 1 /\ ticker.raf = 0

\* C11: once run() has been called, and the host calls every callback that is
\* scheduled, tickFn is entered again and again for ever: every tick is followed
\* by a later one.
C11_TicksForever == [](tickerRun => ([]<>(pc = "render") /\ []<>(pc = "idle")))

\* the third tick is scheduled, after the particles of a burst were spawned
C11_Witness == tickCount = 2 /\ ticker.raf = 1 /\ timers = 0 /\ nextRad > 1

\* C12 as claimed: a tick whose tickFn raised an error is followed by another
\* tick, so after such a tick the Ticker has a callback outstanding.
C12_LoopSurvivesFailure ==
  (failures > 0 /\ pc = "idle") => ticker.raf + ticker.timer >= 1

RECURSIVE Total(_)
Total(seq) == IF seq = <<>> THEN 0 ELSE Head(seq) + Total(Tail(seq))

\* r is p / s rounded to the nearest integer, halves upwards
IsRound(r, p, s) == (2 * r - 1) * s <= 2 * p /\ 2 * p < (2 * r + 1) * s

\* C13: a finished Sand.render with partsCount p and streamsCount s >= 1 has
\* called SandStream.render s times, each time with round(p / s), each call has
\* set round(p / s) timers, round(p / s) * s in all; p = 10, s = 4 gives 3 and 12.
C13_StreamsAndParts ==
  (sandRun.pc = "done" /\ sandRun.streams >= 1) =>
    /\ Len(sandRun.calls) = sandRun.streams
    /\ Len(sandRun.sets) = sandRun.streams
    /\ \A i \in DOMAIN sandRun.calls :
         /\ IsRound(sandRun.calls[i], sandRun.parts, sandRun.streams)
         /\ sandRun.sets[i] = sandRun.calls[i]
    /\ Total(sandRun.sets) = sandRun.calls[1] * sandRun.streams
    /\ (sandRun.parts = 10 /\ sandRun.streams = 4) =>
         (sandRun.calls = <<3, 3, 3, 3>> /\ Total(sandRun.sets) = 12)

C13_Witness ==
  /\ sandRun.pc = "done" /\ sandRun.parts = 10 /\ sandRun.streams = 4
  /\ Total(sandRun.sets) = 12

\* C14: a burst is rendered in one pass only: its render removes it from the
\* Scene in that pass, after its timers were set, and no later pass renders it,
\* so the timers it set and the particles they made never exceed what the
\* bursts promised.
C14_SandOneShot ==
  /\ \A b \in 1..MaxBursts :
       /\ sands[b].renders <= 1
       /\ sands[b].renders = 1 => ~Registered(Sand(b))
  /\ timers + (nextRad - 1) <= promised
  /\ \A i \in DOMAIN drawLog :
       (Kind(drawLog[i]) = "Sand" /\ i = Len(drawLog)) =>
          /\ Len(calls) = 1 /\ calls[1].op = "remove"
          /\ calls[1].obj = drawLog[i] /\ calls[1].present

\* a later pass, rendering a particle of a burst that was rendered before
C14_Witness ==
  /\ \E b \in 1..MaxBursts : sands[b].renders = 1
  /\ pc = "render" /\ lastRender.n # 0 /\ timers > 0

\* C15: within one SandStream.render call with per-part delay P the k-th delay
\* is built from the base (k - 1) * P, and the jitter added to it lies in
\* [0, P); for P = 30 the base of the 5th is 120.
C15_BaseDelay ==
  /\ \A k \in DOMAIN sandRun.bases :
       /\ sandRun.bases[k] = (k - 1) * sandRun.partsDelay
       /\ (sandRun.partsDelay = 30 /\ k = 5) => sandRun.bases[k] = 120
  /\ sandRun.bases # <<>> =>
       LET base == sandRun.bases[Len(sandRun.bases)]
       IN base <= sandRun.lastDelay /\ sandRun.lastDelay < base + sandRun.partsDelay

\* the 5th delay of a call with P = 30, built with a jitter that is not 0
C15_Witness ==
  /\ sandRun.partsDelay = 30 /\ Len(sandRun.bases) = 5
  /\ sandRun.bases[5] = 120 /\ sandRun.lastDelay > 120
  /\ Len(sandRun.calls) = 2

\* C16 as claimed: every coercion of one RandomNumber node returns the value
\* its first coercion returned.
C16_SingleShot ==
  evals.node.kind = "rnd" =>
    \A i, j \in DOMAIN evals.reads : evals.reads[i] = evals.reads[j]

\* C19 as claimed: BottomLimitNumber(limit, value) evaluates to value when
\* value >= limit and to limit when value < limit.
C19_ClampLower ==
  evals.node.kind = "limit" =>
    \A i \in DOMAIN evals.reads :
      evals.reads[i] = Val(IF evals.node.b >= evals.node.a THEN evals.node.b ELSE evals.node.a)

\* C17: one FallAnimation.render moves the target from (top, left) to
\* (top + tickDelay / distancePerTick, left): 16 / 16 adds 1, 16 / 8 adds 2; and
\* after n renders, with no other move, top is the initial top plus n steps.
C17_FallStep ==
  fall.kind = "FallAnimation" =>
  /\ fall.last.by = "render" =>
       /\ RatMul(RatSub(fall.top, fall.last.top), fall.distancePerTick) = fall.tickDelay
       /\ fall.left = fall.last.left
       /\ (fall.tickDelay = Rat(16, 1) /\ fall.distancePerTick = Rat(16, 1)) =>
            fall.top = RatAdd(fall.last.top, Rat(1, 1))
       /\ (fall.tickDelay = Rat(16, 1) /\ fall.distancePerTick = Rat(8, 1)) =>
            fall.top = RatAdd(fall.last.top, Rat(2, 1))
  /\ fall.moves = 0 =>
       /\ RatMul(RatSub(fall.top, fall.top0), fall.distancePerTick)
            = RatMul(Rat(fall.renders, 1), fall.tickDelay)
       /\ fall.left = fall.left0

\* two renders with tickDelay 16 and distancePerTick 8: top has advanced by 4
C17_Witness ==
  /\ fall.renders = 2 /\ fall.moves = 0
  /\ fall.tickDelay = Rat(16, 1) /\ fall.distancePerTick = Rat(8, 1)
  /\ fall.top = RatAdd(fall.top0, Rat(4, 1)) /\ fall.top0 = Rat(3, 1)

\* C18 as claimed: move calls leftFn with the current left and the top of before
\* the call, and stores topFn(top) and that leftFn result.
C18_LeftFnSeesOldTop ==
  fall.last.by # "none" =>
    /\ fall.last.leftFnTop = fall.last.top
    /\ fall.top = ApplyTop(fall.last.topFn, fall.last.top, fall.last.left)
    /\ fall.left = ApplyLeft(fall.last.leftFn, fall.last.left, fall.last.top)

\* C18 amended: move stores topFn(top, left) as the new top and then calls
\* leftFn with the current left and that new top; the result is the new left.
C18_LeftFnSeesNewTop ==
  fall.last.by # "none" =>
    /\ fall.top = ApplyTop(fall.last.topFn, fall.last.top, fall.last.left)
    /\ fall.last.leftFnTop = fall.top
    /\ fall.left = ApplyLeft(fall.last.leftFn, fall.last.left, fall.top)

\* a move whose topFn changed top and whose leftFn adds the top it is given
C18_Witness ==
  /\ fall.last.by = "move" /\ fall.last.leftFn = LeftPlusTop
  /\ fall.top # fall.last.top
  /\ fall.left = RatAdd(fall.last.left, fall.top)
  /\ fall.left # RatAdd(fall.last.left, fall.last.top)

\* C20 as claimed: over any sequence of element() and context() calls the
\* selector lookup of one Canvas is made at most once, also when the first
\* lookup found no element.
C20_LookupAtMostOnce == canvas.lookups <= 1


\* ------------------------------------------------------------ C21 .. C30
\* C21: in the program the Scene holds only outermost objects, Sand bursts and
\* RemoveAfterDelay wrappers; the fall decorator a wrapper holds (and the Circle
\* inside it) is never a member, it is rendered through its wrapper only.
C21_OutermostOnly ==
  /\ \A o \in Objects(entries) : Kind(o) \in {"Sand", "RemoveAfterDelay"}
  /\ \A n \in 1..MaxRad : rad[n].made => rad[n].target \notin Objects(entries)
  /\ \A i \in DOMAIN drawLog : Kind(drawLog[i]) \in {"clearRect", "Sand", "RemoveAfterDelay"}

\* a pass in which the Scene holds two wrappers and one of them has just
\* rendered its fall decorator
C21_Witness ==
  /\ pc = "render" /\ lastRender.shown
  /\ lastRender.target = Fall(lastRender.n)
  /\ Registered(RAD(1)) /\ Registered(RAD(2))


\* C24: with a per-part delay P > 0 the timer of the k-th particle of one
\* SandStream.render call is set with 10 * ((k - 1) * P + j), 0 <= j < P: it
\* lies in [10 (k - 1) P, 10 k P), and it is larger than the delay of the
\* (k - 1)-th timer, which lies in the window before.
C24_TimerDelay ==
  (sandRun.timer.k >= 1 /\ sandRun.partsDelay > 0) =>
    LET P == sandRun.partsDelay
        k == sandRun.timer.k
    IN /\ \E j \in 0..(P - 1) : sandRun.timer.delay = 10 * ((k - 1) * P + j)
       /\ 10 * (k - 1) * P <= sandRun.timer.delay
       /\ sandRun.timer.delay < 10 * k * P
       /\ k >= 2 =>
            /\ sandRun.timer.before < sandRun.timer.delay
            /\ 10 * (k - 2) * P <= sandRun.timer.before
            /\ sandRun.timer.before < 10 * (k - 1) * P

\* the timers of a call with P = 30 and three particles, the last two set with
\* delays that are no multiples of 300
C24_Witness ==
  /\ sandRun.partsDelay = 30 /\ sandRun.timer.k = 3
  /\ sandRun.timer.before = 310 /\ sandRun.timer.delay = 890


\* C30: a zero divisor raises nothing.  Every coercion of Division.of(a, 0)
\* returns a value: Infinity for a > 0, -Infinity for a < 0, NaN for a = 0.
\* Sand.render with streamsCount = 0 never enters SandStream.render and sets
\* no timer, it goes on until it returns, and when it has returned the burst
\* is no longer in the Scene.
C30_ZeroDivisor ==
  /\ (evals.node.kind = "div" /\ evals.node.b = 0) =>
       \A i \in DOMAIN evals.reads :
         /\ evals.reads[i] # Raised
         /\ evals.reads[i] = Quot(CASE evals.node.a > 0 -> Rat(1, 0)
                                     [] evals.node.a < 0 -> Rat(-1, 0)
                                     [] OTHER -> NaN)
  /\ (sandRun.pc # "none" /\ sandRun.streams = 0) =>
       /\ sandRun.pc \in {"new", "streams", "done"}
       /\ sandRun.calls = <<>> /\ sandRun.sets = <<>> /\ sandRun.timer = NoTimer
       /\ sandRun.pc # "done" => ENABLED BurstNext
       /\ sandRun.pc = "done" => ~Has(sandRun.scene, Sand(1))

\* Division.of(2, 0) coerced twice
C30_Witness ==
  /\ evals.node = Div(2, 0) /\ Len(evals.reads) = 2
  /\ evals.reads[2] = Quot(Rat(1, 0))


\* C25 as claimed: a fall decorator adds the same amount to its target's top
\* on every render, also a FallParabolicAnimation whose distancePerTick is the
\* random node SandStream passes.
C25_ConstantStep == fall.renders >= 1 => fall.step = fall.first.step

\* C26 as claimed: on the first render of a FallParabolicAnimation the
\* denominator top - initialTop of the drift is zero.
C26_FirstDenominatorZero ==
  (fall.kind = "FallParabolicAnimation" /\ fall.renders >= 1) =>
    fall.first.delta = Rat(0, 1)

\* C26 amended: on the first render of a FallParabolicAnimation whose target
\* was not moved since it was wrapped, the denominator is the step that render
\* has just added to top, tickDelay / distancePerTick: a finite number above
\* zero, so the drift it adds to left is finite.
C26_FirstDenominatorIsStep ==
  (fall.kind = "FallParabolicAnimation" /\ fall.renders >= 1 /\ ~fall.first.moved) =>
    /\ fall.first.delta = fall.first.step
    /\ Finite(fall.first.delta) /\ fall.first.delta.n > 0
    /\ (fall.renders = 1 /\ fall.last.by = "parabolic") =>
         /\ RatMul(fall.first.delta, fall.distancePerTick) = fall.tickDelay
         /\ fall.first.delta = RatSub(fall.top, fall.top0)
         /\ Finite(fall.left)
         /\ RatMul(RatSub(fall.left, fall.left0), fall.first.delta)
              = RatMul(fall.parabolicConstant, Rat(2, 1))

\* the first render of a particle's decorator: tickDelay 16 over a drawn
\* distancePerTick 4 gives the denominator 4, and the drift -32 / 4
C26_Witness ==
  /\ fall.kind = "FallParabolicAnimation" /\ fall.renders = 1 /\ fall.moves = 0
  /\ fall.speed = SandSpeed /\ fall.distancePerTick = Rat(4, 1)
  /\ fall.tickDelay = Rat(16, 1) /\ fall.parabolicConstant = Rat(-16, 1)
  /\ fall.first.delta = Rat(4, 1)
  /\ fall.left = RatSub(fall.left0, Rat(8, 1))


\* C27: a RemoveAfterDelay has no start timestamp until it is rendered: neither
\* its construction nor its registration sets one, and no time counts for it
\* before.  The step that sets the timestamp is the wrapper's own render, which
\* then measures an elapsed time of 0; from then on, as long as the wrapper is
\* in use, no step (no later render in particular) moves the timestamp: the
\* elapsed time never falls, and a render leaves it as it is.
C27_StartAtFirstRender ==
  /\ [](\A n \in 1..MaxRad : ~rad[n].started => rad[n].elapsed = 0)
  /\ [][\A n \in 1..MaxRad :
         /\ (~rad[n].started /\ rad'[n].started) =>
              /\ drawLog' = Append(drawLog, RAD(n))
              /\ lastRender'.n = n /\ lastRender'.elapsed = 0
              /\ rad'[n].target = Empty \/ rad'[n].elapsed = 0
         /\ (rad[n].started /\ rad'[n].target # Empty) =>
              /\ rad'[n].started
              /\ rad'[n].elapsed >= rad[n].elapsed
              /\ drawLog' = Append(drawLog, RAD(n)) =>
                   /\ rad'[n].elapsed = rad[n].elapsed
                   /\ lastRender'.n = n /\ lastRender'.elapsed = rad[n].elapsed
       ]_vars

\* the second particle has just been rendered for the first time, at elapsed
\* time 0 of its own, while the first one, rendered earlier, has aged
C27_Witness ==
  /\ lastRender.n = 2 /\ lastRender.elapsed = 0 /\ lastRender.shown
  /\ rad[2].started /\ rad[1].started /\ rad[1].elapsed >= 1
  /\ Registered(RAD(1))


\* The particles of the bursts that are made and not rendered yet
RECURSIVE Unrendered(_)
Unrendered(b) ==
  IF b = 0 THEN 0
  ELSE Unrendered(b - 1)
         + (IF sands[b].made /\ sands[b].renders = 0
            THEN sandTimers(sands[b].parts, sands[b].streams) ELSE 0)

AllFired == timers = 0 /\ Unrendered(MaxBursts) = 0 /\ nextRad - 1 = promised

\* C28: no particle timer is cancelled, dropped or merged: the timers that are
\* scheduled, the wrappers made so far and the particles of the bursts not yet
\* rendered always add up to round(partsCount / streamsCount) * streamsCount
\* summed over the bursts; a timer leaves the schedule only by firing, one at
\* a time, and the step that fires it adds one wrapper that was never made or
\* registered before, and nothing else; and every scheduled timer eventually
\* fires, so that the bursts end up with all their additions made.
C28_EveryTimerFires ==
  /\ [](timers + (nextRad - 1) + Unrendered(MaxBursts) = promised)
  /\ [][(timers' < timers \/ nextRad' # nextRad) =>
         /\ timers' = timers - 1 /\ nextRad' = nextRad + 1
         /\ ~rad[nextRad].made /\ rad'[nextRad].made
         /\ ~Registered(RAD(nextRad))
         /\ Objects(entries') = Objects(entries) \cup {RAD(nextRad)}
         /\ \A n \in 1..MaxRad : n # nextRad => rad'[n] = rad[n]
       ]_vars
  /\ []<>AllFired

\* every timer of a burst has fired: MaxRad wrappers were added, the last one
\* while an earlier one was still registered
C28_Witness ==
  /\ AllFired /\ promised = MaxRad /\ BurstsMade = 1
  /\ Registered(RAD(1)) /\ Registered(RAD(MaxRad))


\* C29: rendering an object of the base class raises nothing.  No tick of a
\* Scene that holds such an object fails; the pass that has rendered it goes
\* on, and when it ends every object that was registered when it began and
\* was not removed during it has been rendered, once.
C29_BaseRenderIsHarmless ==
  /\ failures = 0
  /\ Has(drawLog, Plain(1)) =>
       /\ pc = "render"
       /\ PassEnded =>
            \A i \in DOMAIN passStart :
              passStart[i] \notin passRemoved => Times(passStart[i], Rendered) = 1

\* a finished pass that rendered the base object first and then two more objects
C29_Witness ==
  /\ PassEnded /\ Len(drawLog) >= 4
  /\ drawLog[2] = Plain(1)
  /\ drawLog[3] = Circle(1) /\ Kind(drawLog[4]) = "RemoveAfterDelay"


\* No callback of the card is pending: nothing more runs until the next input
Quiet == card.frames = 0

\* C22 as claimed: when the stamps drawn so far have cleared reachPercent of the
\* cover or more, reachPercentHandler has been called, or will be called
\* without further input (so it has been called whenever nothing is pending).
C22_ReachedIsReported ==
  (configured(card.options) /\ Quiet /\ card.cleared >= Tenths(reachPercent))
    => card.win.calls >= 1

\* C23: the body handed to once() runs at most once however often the wrapper
\* is called, and every call of the wrapper returns what that one run
\* returned: the win callback runs once although the percentage stays at or
\* above reachPercent on later moves.
C23_BodyRunsOnce ==
  /\ card.win.runs <= 1
  /\ card.win.calls >= 1 =>
       /\ card.win.runs = 1 /\ card.win.has
       /\ card.win.returned = card.win.first

\* reachPercentHandler was called by two moves and its body, which returned
\* undefined, ran for the first of them only
C23_Witness ==
  /\ card.win.calls = 2 /\ card.win.runs = 1
  /\ card.win.first = "undefined" /\ card.cleared >= Tenths(reachPercent)


\* ------------------------------------------------------------ C31 .. C37
\* The integer nearest to n / d (d > 0), the one farther from zero when n / d
\* lies halfway between two integers
NearestAwayFromZero(n, d) ==
  IF n >= 0 THEN (2 * n + d) \div (2 * d) ELSE 0 - ((2 * (0 - n) + d) \div (2 * d))

\* C31 as claimed: RoundNumber(x) evaluates to the integer nearest to x, and
\* for an x halfway between two integers, positive or negative, to the one
\* farther from zero.
C31_TiesAwayFromZero ==
  evals.node.kind = "round" =>
    \A i \in DOMAIN evals.reads :
      evals.reads[i] = Val(NearestAwayFromZero(evals.node.a, evals.node.b))


\* C32: for the throttled scratchPercentReachedHandler (t = 100 ms): the first
\* call invokes the function whatever time has passed since the creation; a
\* later call invokes it only when more than t ms have passed since the last
\* invocation; a suppressed call returns the result of the last invocation
\* and calls neither the function nor, through it, reachPercentHandler.
C32_Throttle ==
  card.call.called =>
    /\ card.call.first => card.call.invoked
    /\ (~card.call.first /\ card.call.invoked) => card.call.gap > percentTime
    /\ ~card.call.invoked =>
         /\ card.call.returned = card.call.before
         /\ card.percent.result = card.call.before
         /\ ~card.call.reported

\* a call made exactly t ms after the last invocation was suppressed and
\* returned the percentage of that invocation, which the cover has left behind
C32_Witness ==
  /\ card.call.called /\ ~card.call.first /\ ~card.call.invoked
  /\ card.call.gap = percentTime
  /\ card.call.returned = card.call.before
  /\ card.call.returned # Null
  /\ canvasFilledPixelsPercent(card.cleared) > card.call.returned


\* C33: reachPercentHandler is called only by a call of
\* scratchPercentReachedHandler that was not suppressed and computed a
\* percentage >= reachPercent, and never when reachPercent or
\* reachPercentHandler is not configured.
C33_ReportsOnlyWhenReached ==
  /\ [](/\ card.call.reported =>
             /\ card.call.invoked /\ configured(card.options)
             /\ card.call.returned # Null
             /\ card.call.returned >= Tenths(card.options.reachPercent)
        /\ ~configured(card.options) => card.win.calls = 0)
  /\ [][card'.win.calls # card.win.calls =>
          /\ card'.win.calls = card.win.calls + 1
          /\ card'.call.reported /\ card'.call.invoked
          /\ card'.call.returned >= Tenths(reachPercent)]_vars

\* reachPercentHandler has been called once, by a call that computed 60 for a
\* cover of which 59.6 percent are erased
C33_Witness ==
  /\ card.win.calls = 1 /\ card.call.reported /\ card.call.invoked
  /\ card.call.returned = Tenths(reachPercent)
  /\ card.cleared < Tenths(reachPercent)


\* C34: lastClearPercent is assigned only by a dust callback that ran, and the
\* deltas passed to dustHandler add up to lastClearPercent.
C34_DeltasAddUp ==
  /\ [](card.dusted = ToNumber(card.lastClearPercent.v))
  /\ [][card'.lastClearPercent # card.lastClearPercent =>
          /\ card'.dustRuns = card.dustRuns + 1
          /\ card'.dusted - card.dusted
               = ToNumber(card'.lastClearPercent.v) - ToNumber(card.lastClearPercent.v)]_vars

\* two dust callbacks have run and their deltas add up to 70 percent; the last
\* move's measurement was suppressed, so that it changed nothing although the
\* cover has been erased further
C34_Witness ==
  /\ card.dustRuns = 2
  /\ card.dusted = Tenths(70)
  /\ card.call.called /\ ~card.call.invoked
  /\ card.cleared > Tenths(70)


\* C35: for each kind of input, inMoveHandler is registered on the canvas
\* exactly while a start event on the canvas has not been followed by an end
\* event, and never more than once; a move event asks for a paint callback
\* only while a start event of its kind is not followed by an end event.
C35_MoveOnlyWhileHeld ==
  /\ [](\A k \in Kinds :
          /\ card.listeners[k].move = (IF card.held[k] THEN 1 ELSE 0)
          /\ card.listeners[k].end = card.listeners[k].move)
  /\ [][card'.frames > card.frames =>
          /\ card'.input.type = "move"
          /\ card.held[card'.input.kind]]_vars

\* a mouse move arrives after the end of a mouse stroke, at a time at which
\* the throttle would let it pass, and is not handled, while a touch that has
\* started keeps its own registration
C35_Witness ==
  /\ card.input = [kind |-> "mouse", type |-> "move", handled |-> FALSE]
  /\ ~card.held["mouse"] /\ card.listeners["mouse"].move = 0
  /\ card.move.has /\ card.move.since > moveTime
  /\ card.held["touch"] /\ card.listeners["touch"].move = 1


\* C36: a Sum, Mul or Division holds two numbers once it is constructed, every
\* coercion of it returns the value of its operation on those two numbers, and
\* Math.random() is called once for each RandomNumber operand when the node is
\* constructed and never when it is coerced.
C36_OperandsFrozen ==
  /\ [](evals.node.kind = "binary" =>
          /\ evals.node.x.kind = "num" /\ evals.node.y.kind = "num"
          /\ \A i \in DOMAIN evals.reads :
               evals.reads[i] = binaryValue(evals.node.op, evals.node.x.a, evals.node.y.a))
  /\ [][/\ evals.node.kind = "binary" => evals'.draws = evals.draws
        /\ (evals.node.kind = "new" /\ evals' # evals) =>
             evals'.draws = RandomCalls(evals.node.x) + RandomCalls(evals.node.y)]_vars

\* a Mul one of whose operands was a RandomNumber has been coerced twice and
\* returned 6 both times, after one call of Math.random()
C36_Witness ==
  /\ evals.node.kind = "binary" /\ evals.node.op = "mul"
  /\ evals.draws = 1
  /\ evals.reads = <<Val(6), Val(6)>>


\* C37: for a palette of n >= 1 colors, every coercion of
\* FloorNumber(RandomNumber(0, n)) returns an integer in 0 .. n - 1, and the
\* palette's entry at that index is one of its colors, never undefined.
C37_IndexInPalette ==
  (evals.node.kind = "floor" /\ evals.node.x.b >= 1) =>
    LET colors == Palette(evals.node.x.b)
    IN \A i \in DOMAIN evals.reads :
         /\ evals.reads[i].def
         /\ evals.reads[i].v \in 0..(Len(colors) - 1)
         /\ At(colors, evals.reads[i].v) # "undefined"
         /\ \E c \in DOMAIN colors : At(colors, evals.reads[i].v) = colors[c]

\* the index for the largest palette was computed twice (each time with a new
\* draw) and gave the last color and then the first
C37_Witness ==
  /\ evals.node = Floor(Rnd(0, MaxColors))
  /\ evals.reads = <<Val(MaxColors - 1), Val(0)>>
  /\ evals.draws = 2

=============================================================================
